---- MODULE Spec2Model ----
(***************************************************************************)
(* Model of the recommendation engine of GENAI-GREEN-GENIE:                *)
(*   src/backend/recommender_lib.py  generate_recommendation               *)
(*   src/app.py                      the caller (data load, main action)   *)
(*                                                                         *)
(* A pandas DataFrame is a record                                          *)
(*   [isNone, columns, index, data]                                        *)
(* columns: the sequence of column names, index: the sequence of row       *)
(* labels, data: one function (column name -> value) per row.  Python's    *)
(* None in place of a table is the record NoneDF (isNone = TRUE).          *)
(* A Python value is a record [k, s, n]: k says which of None, a string,   *)
(* a number or NaN (pandas' missing marker) it is.                         *)
(***************************************************************************)
EXTENDS Integers, Sequences, FiniteSets, TLC

VARIABLES pc, esg, sector, risk, top_n, random_state, df_norm, df_filt, out, exc, recs, prev

vars == <<pc, esg, sector, risk, top_n, random_state, df_norm, df_filt, out, exc, recs, prev>>

(* ------------------------------ bounds --------------------------------- *)
MaxRows == 4
MaxTopN == 2
MaxScore == 2

(* ------------------------- program constants --------------------------- *)
top_n_default == 5
random_state_default == 42

(* --------------------------- Python values ----------------------------- *)
None_ == [k |-> "none", s |-> "", n |-> 0]
NaN == [k |-> "nan", s |-> "", n |-> 0]
Str(x) == [k |-> "str", s |-> x, n |-> 0]
Num(x) == [k |-> "num", s |-> "", n |-> x]

isna(v) == v.k \in {"nan", "none"}

\* Python truthiness, as used by `if sector and ...`, `risk or ""`,
\* `if company_col and ...`.
Truthy(v) ==
    CASE v.k = "none" -> FALSE
      [] v.k = "str" -> v.s # ""
      [] v.k = "num" -> v.n # 0
      [] OTHER -> TRUE

\* str(x) / Series.astype(str): a missing value becomes the text "nan".
str(v) ==
    CASE v.k = "str" -> v.s
      [] v.k = "num" -> ToString(v.n)
      [] v.k = "nan" -> "nan"
      [] OTHER -> "None"

\* str.lower() on the strings of the model.
LowerTable ==
    [x \in {"All", "ALL", "Low", "LOW", "Medium", "MEDIUM", "High", "HIGH", "Energy", "Gas"} |->
        CASE x \in {"All", "ALL"} -> "all"
          [] x \in {"Low", "LOW"} -> "low"
          [] x \in {"Medium", "MEDIUM"} -> "medium"
          [] x \in {"High", "HIGH"} -> "high"
          [] x = "Energy" -> "energy"
          [] OTHER -> "gas"]

lower(x) == IF x \in DOMAIN LowerTable THEN LowerTable[x] ELSE x

\* pd.to_numeric(..., errors="coerce") on one value: a number stays, a
\* string that spells a number is parsed, anything else becomes NaN.
to_numeric(v) ==
    CASE v.k = "num" -> v
      [] v.k = "str" ->
            IF \E m \in 0..MaxScore : ToString(m) = v.s
            THEN Num(CHOOSE m \in 0..MaxScore : ToString(m) = v.s)
            ELSE NaN
      [] OTHER -> NaN

(* ----------------------------- DataFrames ------------------------------ *)
NoneDF == [isNone |-> TRUE, columns |-> <<>>, index |-> <<>>, data |-> <<>>]

\* pd.DataFrame()
EmptyDF == [isNone |-> FALSE, columns |-> <<>>, index |-> <<>>, data |-> <<>>]

len(df) == Len(df.index)

Range(q) == {q[i] : i \in DOMAIN q}

\* DataFrame.empty: any axis of length 0.
empty(df) == Len(df.columns) = 0 \/ Len(df.index) = 0

\* df.rename(columns={old: new})
rename(df, old, new) ==
    [isNone |-> FALSE,
     columns |-> [i \in DOMAIN df.columns |->
                     IF df.columns[i] = old THEN new ELSE df.columns[i]],
     index |-> df.index,
     data |-> [r \in DOMAIN df.data |->
                 [c \in (DOMAIN df.data[r] \ {old}) \cup {new} |->
                     IF c = new THEN df.data[r][old] ELSE df.data[r][c]]]]

\* df.insert(0, col, values): a new first column.
insert0(df, col, values) ==
    [isNone |-> FALSE,
     columns |-> <<col>> \o df.columns,
     index |-> df.index,
     data |-> [r \in DOMAIN df.data |->
                 [c \in DOMAIN df.data[r] \cup {col} |->
                     IF c = col THEN values[r] ELSE df.data[r][c]]]]

\* df[col] = values: overwrite the column, or append it as the last one.
setcol(df, col, values) ==
    [isNone |-> FALSE,
     columns |-> IF col \in Range(df.columns) THEN df.columns
                 ELSE Append(df.columns, col),
     index |-> df.index,
     data |-> [r \in DOMAIN df.data |->
                 [c \in DOMAIN df.data[r] \cup {col} |->
                     IF c = col THEN values[r] ELSE df.data[r][c]]]]

\* The rows at the given positions (1-based), in that order, labels kept.
take(df, p) ==
    [isNone |-> FALSE,
     columns |-> df.columns,
     index |-> [i \in DOMAIN p |-> df.index[p[i]]],
     data |-> [i \in DOMAIN p |-> df.data[p[i]]]]

\* Variant of head: no cut.
head_all(df, m) == df
head(df, m) == take(df, [i \in 1..(IF m < len(df) THEN m ELSE len(df)) |-> i])

\* out.reset_index(drop=True): labels 0..len-1.
reset_index(df) ==
    [isNone |-> FALSE, columns |-> df.columns,
     index |-> [i \in DOMAIN df.index |-> i - 1], data |-> df.data]

(* ------------------------- column resolution --------------------------- *)
CompanyCandidates == <<"Company", "Company Name", "Stock", "Ticker", "Symbol", "Name">>
ScoreCandidates == <<"ESG Score", "esg_score", "esg", "score">>
SectorCandidates == <<"Sector", "sector", "Industry", "industry">>

\* Variant of pick_col: the first column, in the table's column order, that
\* is a candidate.
pick_col_table_order(df, candidates) ==
    LET hits == {i \in DOMAIN df.columns : df.columns[i] \in Range(candidates)}
    IN IF hits = {} THEN None_
       ELSE Str(df.columns[CHOOSE i \in hits : \A j \in hits : i <= j])

\* pick_col: the first candidate, in candidate order, that is a column; else None.
pick_col(df, candidates) ==
    LET hits == {i \in DOMAIN candidates : candidates[i] \in Range(df.columns)}
    IN IF hits = {} THEN None_
       ELSE Str(candidates[CHOOSE i \in hits : \A j \in hits : i <= j])

\* lines 21-24: the Company column.
normalize_company(df, company_col) ==
    IF Truthy(company_col) /\ company_col.s # "Company"
    THEN rename(df, company_col.s, "Company")
    ELSE IF "Company" \notin Range(df.columns)
         THEN insert0(df, "Company",
                      [r \in DOMAIN df.index |-> Str(ToString(df.index[r]))])
         ELSE df

\* lines 26-29: the ESG Score column.
normalize_score(df, esg_col) ==
    LET d == IF Truthy(esg_col) /\ esg_col.s # "ESG Score"
             THEN rename(df, esg_col.s, "ESG Score") ELSE df
    IN IF "ESG Score" \in Range(d.columns)
       THEN setcol(d, "ESG Score",
                   [r \in DOMAIN d.data |-> to_numeric(d.data[r]["ESG Score"])])
       ELSE d

\* lines 31-34: the Sector column.
normalize_sector(df, sector_col) ==
    LET d == IF Truthy(sector_col) /\ sector_col.s # "Sector"
             THEN rename(df, sector_col.s, "Sector") ELSE df
    IN IF "Sector" \notin Range(d.columns)
       THEN setcol(d, "Sector", [r \in DOMAIN d.data |-> Str("Unknown")])
       ELSE d

\* lines 17-34: the three columns are picked first, then each is normalized.
normalize(df) ==
    LET company_col == pick_col(df, CompanyCandidates)
        esg_col == pick_col(df, ScoreCandidates)
        sector_col == pick_col(df, SectorCandidates)
    IN normalize_sector(
           normalize_score(normalize_company(df, company_col), esg_col),
           sector_col)

(* ---------------------------- sector filter ---------------------------- *)
Positions(df) == [i \in 1..len(df) |-> i]

\* line 37: is a filter applied at all.
filter_selected(sector_) == Truthy(sector_) /\ lower(str(sector_)) # "all"

\* line 38: df[df["Sector"].astype(str) == str(sector)]
sector_matches(cell, sector_) == str(cell) = str(sector_)

filter_by_sector(df, sector_) ==
    IF filter_selected(sector_)
    THEN take(df, SelectSeq(Positions(df),
                            LAMBDA i : sector_matches(df.data[i]["Sector"], sector_)))
    ELSE df

(* ------------------------------ sorting -------------------------------- *)
RECURSIVE PermutationsOf(_)
PermutationsOf(S) ==
    IF S = {} THEN {<<>>}
    ELSE UNION {{<<x>> \o p : p \in PermutationsOf(S \ {x})} : x \in S}

AllPermutations(m) == PermutationsOf(1..m)

\* df.sort_values(by, ascending=False): the default kind is "quicksort",
\* which is not stable, and missing values go last (na_position="last") in
\* their original order.  Every order of rows that is descending in `by`
\* is a possible outcome; rows with equal values may come in any order.
\* Variant of sort_orders: ascending=True.
sort_orders_ascending(df, by) ==
    {p \in AllPermutations(len(df)) :
        \A i, j \in 1..len(df) : i < j =>
            LET a == df.data[p[i]][by]
                b == df.data[p[j]][by]
            IN CASE isna(a) /\ isna(b) -> p[i] < p[j]
                 [] isna(a) -> FALSE
                 [] isna(b) -> TRUE
                 [] OTHER -> a.n <= b.n}
sort_orders(df, by) ==
    {p \in AllPermutations(len(df)) :
        \A i, j \in 1..len(df) : i < j =>
            LET a == df.data[p[i]][by]
                b == df.data[p[j]][by]
            IN CASE isna(a) /\ isna(b) -> p[i] < p[j]
                 [] isna(a) -> FALSE
                 [] isna(b) -> TRUE
                 [] OTHER -> a.n >= b.n}

sort_values(df, by) == {take(df, p) : p \in sort_orders(df, by)}

(* ------------------------------ sampling ------------------------------- *)
\* numpy.random.RandomState(seed).permutation(m), m = 1..6, for the seeds
\* of the model: DataFrame.sample(n, random_state=seed) builds a new
\* RandomState(seed) per call and takes the first n labels of
\* permutation(len(df)).
RandomStatePermutation(seed, m) ==
    IF seed = 42
    THEN << <<0>>, <<1, 0>>, <<0, 1, 2>>, <<1, 3, 0, 2>>, <<1, 4, 2, 0, 3>>,
            <<0, 1, 5, 2, 4, 3>> >>[m]
    ELSE << <<0>>, <<0, 1>>, <<2, 1, 0>>, <<2, 1, 0, 3>>, <<0, 3, 2, 1, 4>>,
            <<3, 5, 0, 2, 1, 4>> >>[m]

\* The permutations a generator can draw: one for a generator seeded per
\* call.  Variant: any permutation, as from a generator whose state is
\* shared by the process (random_state=None).
permutation_unseeded(seed, m) ==
    {[i \in 1..m |-> p[i] - 1] : p \in AllPermutations(m)}
permutation(seed, m) == {RandomStatePermutation(seed, m)}

min(a, b) == IF a < b THEN a ELSE b
max(a, b) == IF a > b THEN a ELSE b

\* df.sample(n=n_, random_state=seed)
sample(df, n_, seed) ==
    {take(df, [i \in 1..n_ |-> q[i] + 1]) : q \in permutation(seed, len(df))}

(* ----------------------------- risk logic ------------------------------ *)
\* lines 44-53: the possible values of `out`.
risk_logic(df, risk_, top_n_, seed) ==
    LET r == lower(IF Truthy(risk_) THEN risk_.s ELSE "")
    IN IF r = "low" /\ "ESG Score" \in Range(df.columns)
       THEN {head(d, top_n_) : d \in sort_values(df, "ESG Score")}
       ELSE IF r = "medium" /\ "ESG Score" \in Range(df.columns)
       THEN {head(d, max(1, len(d) \div 2)) : d \in sort_values(df, "ESG Score")}
       ELSE IF r = "high"
       THEN sample(df, min(top_n_, len(df)), seed)
       ELSE sample(df, min(top_n_, len(df)), seed)

(* ----------------------- generate_recommendation ----------------------- *)
\* line 11: the guard of the first early return.
\* Variant of no_data: a missing table is not tested for.
no_data_present_only(esg_) == ~esg_.isNone /\ empty(esg_)
no_data(esg_) == esg_.isNone \/ empty(esg_)

\* line 14, df = esg.copy(): df is a new object, so the in-place renames
\* and assignments that follow leave the caller's table as it was.
\* Variant: df = esg, the caller's table is the one renamed.
esg_after_aliased(esg_, df) == df
esg_after(esg_, df) == esg_

Outcome(e, ret, picked, norm, filt, after) ==
    [exc |-> e, recs |-> ret, out |-> picked, df_norm |-> norm, df_filt |-> filt,
     esg |-> after]

\* The whole function: the set of its possible outcomes.  df_norm is the
\* table that reaches the sector filter, df_filt the table after it, out the
\* selection before its labels are reset at line 55 (each NoneDF when the
\* call returns before that point).
generate_recommendation(esg_, sector_, risk_, top_n_, seed) ==
    IF no_data(esg_)
    THEN {Outcome("", EmptyDF, NoneDF, NoneDF, NoneDF, esg_)}
    ELSE IF esg_.isNone
    THEN {Outcome("AttributeError", NoneDF, NoneDF, NoneDF, NoneDF, esg_)}
    ELSE LET df == normalize(esg_)
             filt == filter_by_sector(df, sector_)
         IN IF empty(filt)
            THEN {Outcome("", EmptyDF, NoneDF, df, filt, esg_after(esg_, df))}
            ELSE {Outcome("", reset_index(o), o, df, filt, esg_after(esg_, df)) :
                    o \in risk_logic(filt, risk_, top_n_, seed)}

(* ------------------------------- inputs -------------------------------- *)
\* A table as load_data returns it (pd.read_csv): rows labelled 0..len-1.
MkDF(cols, rows) ==
    [isNone |-> FALSE, columns |-> cols,
     index |-> [i \in DOMAIN rows |-> i - 1],
     data |-> [i \in DOMAIN rows |->
                 [c \in Range(cols) |->
                     rows[i][CHOOSE k \in DOMAIN cols : cols[k] = c]]]]

\* The raw schemas of the model, each with the rows its tables are made of.
Layouts ==
    { [columns |-> <<"Ticker", "Industry", "score">>,
       rows |-> { <<Str("AAA"), Str("Energy"), Num(1)>>,
                  <<Str("BBB"), Str("Energy"), Str("2")>>,
                  <<NaN, Str("energy"), Str("TBD")>> }],
      [columns |-> <<"Company", "Sector", "ESG Score">>,
       rows |-> { <<Str("AAA"), Str("Energy"), Num(2)>>,
                  <<Str("CCC"), Str("Gas"), Str("2")>> }],
      [columns |-> <<"Sector", "Price">>,
       rows |-> { <<Str("Energy"), Num(1)>>,
                  <<NaN, Num(2)>> }],
      [columns |-> <<"Name", "esg">>,
       rows |-> { <<Str("AAA"), NaN>> }],
      [columns |-> <<"Name", "Ticker", "industry", "Sector", "score", "esg">>,
       rows |-> { <<Str("NNN"), Str("TTT"), Str("Gas"), Str("Energy"), Num(1), Num(2)>> }],
      [columns |-> <<"Symbol", "Company", "Industry", "sector", "esg_score", "ESG Score">>,
       rows |-> { <<Str("SSS"), Str("AAA"), Str("Gas"), Str("Energy"), Num(1), Num(2)>> }],
      [columns |-> <<"Price">>,
       rows |-> { <<Num(1)>> }],
      [columns |-> <<>>,
       rows |-> { <<>> }] }

TablesOf(layout) ==
    {MkDF(layout.columns, q) :
        q \in UNION {[1..m -> layout.rows] : m \in 0..MaxRows}}

RawTables == UNION {TablesOf(layout) : layout \in Layouts}

Sectors == {None_, Str("All"), Str("all"), Str("Energy"), Str("Gas"), Str("nan")}
Risks == {Str("Low"), Str("MEDIUM"), Str("High"), None_}
TopNs == 0..MaxTopN
Seeds == {random_state_default, 7}

\* The inputs of the repeated-call specification.
RepeatTables == {t \in RawTables : t.columns = <<"Company", "Sector", "ESG Score">>}
RepeatSectors == {None_, Str("Energy")}
RepeatRisks == {Str("High"), Str("balanced")}
RepeatTopNs == 1..MaxTopN

(* ---------------------------- state machine ---------------------------- *)
\* pc: "start" (no data yet), "ready" (data loaded), "returned" (a call of
\* generate_recommendation has returned or raised).
\* esg: the caller's ESG table.  sector, risk, top_n, random_state: the
\* arguments of the last call; exc, recs: its exception ("" for none) and
\* its return value; df_norm, df_filt: the table before and after the
\* sector filter in that call.  prev: an earlier call, kept for comparison.
NoCall ==
    [set |-> FALSE, risk |-> None_, top_n |-> 0, random_state |-> 0,
     df_filt |-> NoneDF, recs |-> NoneDF]

ThisCall ==
    [set |-> TRUE, risk |-> risk, top_n |-> top_n, random_state |-> random_state,
     df_filt |-> df_filt, recs |-> recs]

Init ==
    /\ pc = "start"
    /\ esg = NoneDF
    /\ sector = None_
    /\ risk = None_
    /\ top_n = top_n_default
    /\ random_state = random_state_default
    /\ df_norm = NoneDF
    /\ df_filt = NoneDF
    /\ out = NoneDF
    /\ exc = ""
    /\ recs = NoneDF
    /\ prev = NoCall

\* app.py 99-103: the caller obtains the ESG table; a caller whose
\* acquisition produced nothing holds None.
Load(tables) ==
    /\ pc = "start"
    /\ \E t \in tables : esg' = t
    /\ pc' = "ready"
    /\ UNCHANGED <<sector, risk, top_n, random_state, df_norm, df_filt, out, exc, recs, prev>>

\* app.py 146 / recommender_lib.py 4-55: one call of generate_recommendation.
Call(sectors, risks, topns, seeds) ==
    \E s \in sectors, r \in risks, m \in topns, seed \in seeds :
        \E o \in generate_recommendation(esg, s, r, m, seed) :
            /\ sector' = s
            /\ risk' = r
            /\ top_n' = m
            /\ random_state' = seed
            /\ exc' = o.exc
            /\ recs' = o.recs
            /\ df_norm' = o.df_norm
            /\ df_filt' = o.df_filt
            /\ out' = o.out
            /\ esg' = o.esg

load_data == Load(RawTables \cup {NoneDF})

GetRecommendations ==
    /\ pc = "ready"
    /\ Call(Sectors, Risks, TopNs, Seeds)
    /\ pc' = "returned"
    /\ prev' = prev

Next == load_data \/ GetRecommendations

Spec == Init /\ [][Next]_vars

\* Repeated calls on one table: each call may be kept in prev, so that any
\* two calls of a run get compared, whatever calls lie between them.
load_data_repeat == Load(RepeatTables)

GetRecommendationsAgain ==
    /\ pc \in {"ready", "returned"}
    /\ Call(RepeatSectors, RepeatRisks, RepeatTopNs, Seeds)
    /\ pc' = "returned"
    /\ prev' \in {prev} \cup (IF pc = "returned" THEN {ThisCall} ELSE {})

NextRepeat == load_data_repeat \/ GetRecommendationsAgain

SpecRepeat == Init /\ [][NextRepeat]_vars

(* ------------------------------ claims --------------------------------- *)
\* The call ran through to the risk logic and returned a selection.
Selected == pc = "returned" /\ exc = "" /\ ~out.isNone

\* r of line 44.
RiskKey == lower(IF Truthy(risk) THEN risk.s ELSE "")

HasScoreColumn(df) == "ESG Score" \in Range(df.columns)

\* Is a score present on the row at position i of df.
Scored(df, i) == HasScoreColumn(df) /\ ~isna(df.data[i]["ESG Score"])

\* C1 as stated: every returned result has at most top_n rows, whatever the
\* risk level.
C1_AtMostTopN == (pc = "returned" /\ exc = "") => len(recs) <= top_n

\* C1 amended: a returned result has at most top_n rows, except under risk
\* "medium" on a table with a score column, where it has at most
\* max(1, count div 2) rows, count being the rows left by the sector filter.
C1_AtMostTopNUnlessMedium ==
    (pc = "returned" /\ exc = "") =>
        IF ~out.isNone /\ RiskKey = "medium" /\ HasScoreColumn(df_filt)
        THEN len(recs) <= max(1, len(df_filt) \div 2)
        ELSE len(recs) <= top_n

\* A call whose selection was cut to top_n rows, top_n > 0.
C1_Witness ==
    Selected /\ top_n > 0 /\ len(df_filt) > top_n /\ len(recs) = top_n

Score(df, i) == df.data[i]["ESG Score"].n

\* What risk "high" returns for the filtered table, top_n and seed at hand.
DefaultPolicyResults ==
    {reset_index(o) : o \in sample(df_filt, min(top_n, len(df_filt)), random_state)}

\* C3: under risk "low" or "medium", when no row left by the sector filter
\* has a score (no score column, or a score column with no parseable
\* value), the result is the one risk "high" gives for the same filtered
\* table, top_n and seed.
C3_UnscoredFallsToDefault ==
    (Selected /\ RiskKey \in {"low", "medium"}
        /\ \A i \in 1..len(df_filt) : ~Scored(df_filt, i))
    => recs \in DefaultPolicyResults

\* The order the claim C4 describes: scored rows first, by descending
\* score, equal scores in original order; then the unscored rows in
\* original order.
StableOrder(df) ==
    CHOOSE p \in AllPermutations(len(df)) :
        \A i, j \in 1..len(df) : i < j =>
            CASE Scored(df, p[i]) /\ Scored(df, p[j]) ->
                    \/ Score(df, p[i]) > Score(df, p[j])
                    \/ Score(df, p[i]) = Score(df, p[j]) /\ p[i] < p[j]
              [] Scored(df, p[i]) -> TRUE
              [] Scored(df, p[j]) -> FALSE
              [] OTHER -> p[i] < p[j]

\* C4: under risk "low", when some row left by the sector filter has a
\* score, the result is the first min(top_n, count) rows of the filtered
\* table in the order StableOrder.
C4_LowIsStableSortedPrefix ==
    (Selected /\ RiskKey = "low" /\ \E i \in 1..len(df_filt) : Scored(df_filt, i))
    => /\ len(recs) = min(top_n, len(df_filt))
       /\ recs.columns = df_filt.columns
       /\ recs.data = [k \in 1..len(recs) |-> df_filt.data[StableOrder(df_filt)[k]]]

\* C5: under risk "medium" on a filtered table with a score column and at
\* least one row, the result has exactly max(1, count div 2) rows whatever
\* top_n is; every returned row has a score at least as high as every scored
\* row that was not returned; the returned rows are in descending score
\* order, unscored rows last.
C5_MediumTakesTopHalf ==
    (Selected /\ RiskKey = "medium" /\ HasScoreColumn(df_filt)) =>
        /\ len(recs) = (IF len(df_filt) \div 2 >= 1 THEN len(df_filt) \div 2 ELSE 1)
        /\ recs.data = out.data
        /\ Range(out.index) \subseteq Range(df_filt.index)
        /\ \A k \in 1..len(out), i \in 1..len(df_filt) :
              (df_filt.index[i] \notin Range(out.index) /\ Scored(df_filt, i))
              => (Scored(out, k) /\ Score(out, k) >= Score(df_filt, i))
        /\ \A k, l \in 1..len(out) :
              (k < l /\ Scored(out, l))
              => (Scored(out, k) /\ Score(out, k) >= Score(out, l))

\* A medium call on four rows that returned two of them although top_n is
\* smaller, leaving out a scored row with a lower score.
C5_Witness ==
    /\ Selected /\ RiskKey = "medium" /\ HasScoreColumn(df_filt)
    /\ len(df_filt) = 4 /\ len(recs) = 2 /\ top_n < 2
    /\ \E i \in 1..len(df_filt) :
          /\ df_filt.index[i] \notin Range(out.index)
          /\ Scored(df_filt, i)
          /\ Score(df_filt, i) < Score(out, 2)

\* C6: with no sector filter, or the filter "all" in any letter case, the
\* filter step keeps every row; otherwise it keeps exactly the rows whose
\* sector value is the filter string, in original order, every returned row
\* has that sector, and when no row matches the call returns the empty
\* result without raising.
C6_SectorFilter ==
    (pc = "returned" /\ ~df_norm.isNone) =>
        /\ exc = ""
        /\ IF ~Truthy(sector) \/ lower(sector.s) = "all"
           THEN df_filt = df_norm
           ELSE /\ df_filt = take(df_norm,
                        SelectSeq(Positions(df_norm),
                                  LAMBDA i : df_norm.data[i]["Sector"] = Str(sector.s)))
                /\ \A k \in 1..len(recs) : recs.data[k]["Sector"] = Str(sector.s)
                /\ len(df_filt) = 0 => recs = EmptyDF

\* C7: after normalization every row has a company and a sector that are
\* not missing.
C7_CompanyAndSectorNotNull ==
    (pc = "returned" /\ ~df_norm.isNone) =>
        \A r \in 1..len(df_norm) :
            /\ ~isna(df_norm.data[r]["Company"])
            /\ ~isna(df_norm.data[r]["Sector"])

NoCompanyColumn(df) ==
    \A i \in DOMAIN CompanyCandidates : CompanyCandidates[i] \notin Range(df.columns)

\* C8: for a raw table with at least one row and no company candidate
\* column (a table with rows and no columns included), normalization gives
\* each row its zero-based position as company; the returned rows carry
\* the position they had in the raw table; and on a table with no columns
\* and no sector filter the selection works on those rows, each with sector
\* "Unknown".
C8_CompanyIsRawPosition ==
    (pc = "returned" /\ ~esg.isNone /\ len(esg) >= 1 /\ NoCompanyColumn(esg)) =>
        /\ ~df_norm.isNone
        /\ len(df_norm) = len(esg)
        /\ \A r \in 1..len(df_norm) : df_norm.data[r]["Company"] = Str(ToString(r - 1))
        /\ Selected =>
              \A k \in 1..len(recs) : recs.data[k]["Company"] = Str(ToString(out.index[k]))
        /\ (esg.columns = <<>> /\ ~filter_selected(sector)) =>
              /\ Selected
              /\ \A r \in 1..len(df_filt) : df_filt.data[r]["Sector"] = Str("Unknown")

\* Does the risk level select by sampling whatever the columns are.
SamplingRisk(r) == lower(IF Truthy(r) THEN r.s ELSE "") \notin {"low", "medium"}

\* C9: a call with risk "high" or an unrecognized risk returns exactly
\* min(top_n, count) pairwise distinct rows of the filtered table, and two
\* such calls with the same seed, the same top_n and the same filtered rows
\* in the same order return the same rows in the same order, whatever calls
\* were made between them.
C9_SameSeedSameSample ==
    /\ (Selected /\ SamplingRisk(risk)) =>
          /\ len(recs) = min(top_n, len(df_filt))
          /\ recs.data = out.data
          /\ Range(out.index) \subseteq Range(df_filt.index)
          /\ \A k, l \in 1..len(out) : k # l => out.index[k] # out.index[l]
    /\ (pc = "returned" /\ prev.set /\ SamplingRisk(risk) /\ SamplingRisk(prev.risk)
          /\ prev.top_n = top_n /\ prev.random_state = random_state
          /\ prev.df_filt = df_filt)
       => recs = prev.recs

\* Two sampling calls with the same seed, top_n and filtered rows, the
\* sample smaller than the pool it is drawn from.
C9_Witness ==
    /\ Selected /\ prev.set /\ SamplingRisk(risk) /\ SamplingRisk(prev.risk)
    /\ prev.top_n = top_n /\ prev.random_state = random_state
    /\ prev.df_filt = df_filt
    /\ len(recs) = 2 /\ len(df_filt) > 2
    /\ recs = prev.recs

\* The strings to_numeric parses in the model.
SpellsNumber(x) == \E m \in 0..MaxScore : ToString(m) = x

\* C10: normalization keeps every row in its place and leaves the caller's
\* table as it was: the table that reaches the sector filter has the raw
\* table's row labels in the raw order, each row keeps its values under the
\* normalized column names, and a score that is not a number is kept as a
\* missing score, on a row that stays.
C10_NormalizationKeepsRows ==
    [][(pc' = "returned" /\ ~df_norm'.isNone) =>
          LET company_col == pick_col(esg, CompanyCandidates)
              esg_col == pick_col(esg, ScoreCandidates)
              sector_col == pick_col(esg, SectorCandidates)
              picked == {company_col.s, esg_col.s, sector_col.s}
          IN /\ esg' = esg
             /\ df_norm'.index = esg.index
             /\ Len(df_norm'.data) = Len(esg.data)
             /\ \A r \in 1..len(esg) :
                   /\ \A c \in Range(esg.columns) \ picked :
                         df_norm'.data[r][c] = esg.data[r][c]
                   /\ Truthy(company_col) =>
                         df_norm'.data[r]["Company"] = esg.data[r][company_col.s]
                   /\ Truthy(sector_col) =>
                         df_norm'.data[r]["Sector"] = esg.data[r][sector_col.s]
                   /\ Truthy(esg_col) =>
                         LET v == esg.data[r][esg_col.s]
                             w == df_norm'.data[r]["ESG Score"]
                         IN /\ v.k = "num" => w = v
                            /\ (v.k = "str" /\ SpellsNumber(v.s)) => (w.k = "num" /\ ToString(w.n) = v.s)
                            /\ (v.k = "str" /\ ~SpellsNumber(v.s)) => w = NaN
                            /\ isna(v) => w = NaN
      ]_vars

\* A call on a table of two or more rows, one with the unparseable score
\* "TBD", which reached the sector filter with that score missing.
C10_Witness ==
    /\ pc = "returned" /\ ~df_norm.isNone /\ len(esg) >= 2
    /\ "score" \in Range(esg.columns)
    /\ \E r \in 1..len(esg) :
          /\ esg.data[r]["score"] = Str("TBD")
          /\ df_norm.data[r]["ESG Score"] = NaN
          /\ df_norm.index[r] = esg.index[r]

\* For one canonical field: when the raw table raw has candidates of the
\* field, the one that comes first in the candidate list gives the values
\* of the canonical column of the normalized table norm.
FirstInPriorityIsSource(raw, norm, candidates, canonical) ==
    \A i \in DOMAIN candidates :
        (/\ candidates[i] \in Range(raw.columns)
         /\ \A j \in 1..(i - 1) : candidates[j] \notin Range(raw.columns))
        => /\ canonical \in Range(norm.columns)
           /\ \A r \in 1..len(raw) :
                 norm.data[r][canonical] = raw.data[r][candidates[i]]
           /\ \A j \in DOMAIN candidates :
                 (j # i /\ candidates[j] \in Range(raw.columns)) =>
                    /\ candidates[j] \in Range(norm.columns)
                    /\ \A r \in 1..len(raw) :
                          norm.data[r][candidates[j]] = raw.data[r][candidates[j]]

\* The raw columns that are no candidate of any field.
OtherColumns(raw) ==
    Range(raw.columns)
        \ (Range(CompanyCandidates) \cup Range(ScoreCandidates) \cup Range(SectorCandidates))

\* The raw scores are numbers already, so that coercion leaves them as
\* they are.
NumericScores(raw) ==
    \A r \in 1..len(raw), c \in Range(ScoreCandidates) \cap Range(raw.columns) :
        raw.data[r][c].k = "num"

\* C11: for each of company, sector and score, the source column is the
\* candidate that comes first in the field's priority list, whatever the
\* column order of the table; its values are the canonical column's; every
\* other column, the lower-priority candidates included, keeps its name and
\* its values; and no two columns of the normalized table have the same
\* name.
C11_PriorityOrderPicksSource ==
    (pc = "returned" /\ ~df_norm.isNone) =>
        /\ FirstInPriorityIsSource(esg, df_norm, CompanyCandidates, "Company")
        /\ FirstInPriorityIsSource(esg, df_norm, SectorCandidates, "Sector")
        /\ NumericScores(esg) =>
              FirstInPriorityIsSource(esg, df_norm, ScoreCandidates, "ESG Score")
        /\ \A c \in OtherColumns(esg) :
              /\ c \in Range(df_norm.columns)
              /\ \A r \in 1..len(esg) : df_norm.data[r][c] = esg.data[r][c]
        /\ \A i, j \in DOMAIN df_norm.columns :
              i # j => df_norm.columns[i] # df_norm.columns[j]
        /\ \A r \in 1..len(df_norm) : DOMAIN df_norm.data[r] = Range(df_norm.columns)

\* A table whose column "Name" comes before "Ticker" and "score" before
\* "esg": Company holds the Ticker values, ESG Score the esg values, and
\* Name and score are still there with their values.
C11_Witness ==
    /\ pc = "returned" /\ ~df_norm.isNone /\ len(esg) >= 2
    /\ esg.columns = <<"Name", "Ticker", "industry", "Sector", "score", "esg">>
    /\ df_norm.columns = <<"Name", "Company", "industry", "Sector", "score", "ESG Score">>
    /\ \A r \in 1..len(esg) :
          /\ df_norm.data[r]["Company"] = Str("TTT")
          /\ df_norm.data[r]["Name"] = Str("NNN")
          /\ df_norm.data[r]["ESG Score"] = Num(2)
          /\ df_norm.data[r]["score"] = Num(1)
          /\ df_norm.data[r]["Sector"] = Str("Energy")
          /\ df_norm.data[r]["industry"] = Str("Gas")

====
